---- MODULE Spec2Model ----
(***************************************************************************)
(* Model of graph/src/env/store.rs: the store section of graph-node's      *)
(* environment configuration.  `InnerStore` is filled from the process     *)
(* environment by `#[derive(Envconfig)]`, then converted into the public   *)
(* `EnvVarsStore` by `From<InnerStore>`.                                   *)
(*                                                                         *)
(* Raw values are strings, modelled as sequences of one-character strings, *)
(* and every parser below walks the characters the way the Rust parser     *)
(* does.  TLC integers are 32 bits wide, so the 64-bit types of the source *)
(* (u64, usize on the 64-bit targets graph-node runs on, i64) are modelled *)
(* at the reduced width WordBits, u32 at U32Bits, and f64 with a           *)
(* significand of MantBits bits; every limit is computed from these.       *)
(***************************************************************************)
EXTENDS Integers, Sequences, FiniteSets, TLC

\* ------------------------------------------------------------------ widths
\* Width standing for the 64 bits of u64 / usize / i64.
WordBits == 26
\* Width standing for the 32 bits of u32.
U32Bits == 12
\* Width standing for the 53-bit significand of f64.
MantBits == 8
\* Number of recognized variables the environment snapshot may hold.
MaxPresent == 2

RECURSIVE Pow2(_)
Pow2(n) == IF n = 0 THEN 1 ELSE 2 * Pow2(n - 1)

RECURSIVE Pow10(_)
Pow10(n) == IF n = 0 THEN 1 ELSE 10 * Pow10(n - 1)

U64Max == Pow2(WordBits) - 1
UsizeMax == Pow2(WordBits) - 1
U32Max == Pow2(U32Bits) - 1
I64Max == Pow2(WordBits - 1) - 1

\* ------------------------------------------------------------ raw strings
Digits == {"0", "1", "2", "3", "4", "5", "6", "7", "8", "9"}

DigitVal(c) ==
    CASE c = "0" -> 0 [] c = "1" -> 1 [] c = "2" -> 2 [] c = "3" -> 3
      [] c = "4" -> 4 [] c = "5" -> 5 [] c = "6" -> 6 [] c = "7" -> 7
      [] c = "8" -> 8 [] c = "9" -> 9

DigitChar(d) == <<"0", "1", "2", "3", "4", "5", "6", "7", "8", "9">>[d + 1]

\* The decimal text of a natural number (how a test or an operator writes it).
RECURSIVE ToDigits(_)
ToDigits(n) ==
    IF n < 10 THEN <<DigitChar(n)>>
    ELSE ToDigits(n \div 10) \o <<DigitChar(n % 10)>>

\* s occurs in t as a contiguous substring.
Contains(t, s) ==
    \E i \in 0..(Len(t) - Len(s)) : SubSeq(t, i + 1, i + Len(s)) = s

Ok(v) == [ok |-> TRUE, val |-> v]
Err(m) == [ok |-> FALSE, msg |-> m]

\* --------------------------------------------------- integer parsing (std)
\* The digit loop of core::num's from_str_radix: checked_mul(10) then
\* checked_add(digit), each failing with PosOverflow.
RECURSIVE AccumDigits(_, _, _)
AccumDigits(ds, acc, max) ==
    IF ds = <<>> THEN Ok(acc)
    ELSE IF Head(ds) \notin Digits THEN Err(<<"invalid digit found in string">>)
    ELSE IF acc > max \div 10 THEN Err(<<"number too large to fit in target type">>)
    ELSE IF acc * 10 > max - DigitVal(Head(ds))
         THEN Err(<<"number too large to fit in target type">>)
    ELSE AccumDigits(Tail(ds), acc * 10 + DigitVal(Head(ds)), max)

\* str::parse for an unsigned integer type with maximum max: an empty string
\* and a lone sign are rejected, a leading "+" is skipped, "-" is no digit.
ParseUnsigned(s, max) ==
    IF s = <<>> THEN Err(<<"cannot parse integer from empty string">>)
    ELSE IF Len(s) = 1 /\ s[1] \in {"+", "-"}
         THEN Err(<<"invalid digit found in string">>)
    ELSE AccumDigits(IF s[1] = "+" THEN Tail(s) ELSE s, 0, max)

\* str::parse::<bool>: exactly "true" or "false".
ParseBool(s) ==
    IF s = <<"t", "r", "u", "e">> THEN Ok(TRUE)
    ELSE IF s = <<"f", "a", "l", "s", "e">> THEN Ok(FALSE)
    ELSE Err(<<"provided string was not true or false">>)

\* ------------------------------------------------------------ f64 values
\* An f64 is NaN, an infinity, or a signed dyadic rational num/den in lowest
\* terms (den a power of two) with at most MantBits significant bits.
NaN == [cls |-> "nan"]
Inf(neg) == [cls |-> "inf", neg |-> neg]
Fin(neg, num, den) == [cls |-> "num", neg |-> neg, num |-> num, den |-> den]

RECURSIVE Lowest(_, _)
Lowest(num, den) ==
    IF num = 0 THEN <<0, 1>>
    ELSE IF num % 2 = 0 /\ den % 2 = 0 THEN Lowest(num \div 2, den \div 2)
    ELSE <<num, den>>

\* A quotient q with remainder r of a division by b, rounded half to even.
HalfEven(q, r, b) == IF 2 * r > b \/ (2 * r = b /\ q % 2 = 1) THEN q + 1 ELSE q

\* Round half to even of a / b * 2^(MantBits-1), for b <= a < 2b.
RoundSig(a, b) ==
    HalfEven((a * Pow2(MantBits - 1)) \div b, (a * Pow2(MantBits - 1)) % b, b)

\* m * 2^x as a fraction <<numerator, denominator>> in lowest terms.
Scaled(m, x) == IF x >= 0 THEN <<m * Pow2(x), 1>> ELSE Lowest(m, Pow2(-x))

\* The nearest f64 to n/d * 2^e, for n > 0, found by normalising n/d into [1,2).
RECURSIVE RoundPos(_, _, _)
RoundPos(n, d, e) ==
    IF n >= 2 * d THEN RoundPos(n, 2 * d, e + 1)
    ELSE IF n < d THEN RoundPos(2 * n, d, e - 1)
    ELSE Scaled(RoundSig(n, d), e - (MantBits - 1))

FinOf(neg, v) == Fin(neg, v[1], v[2])

RoundToF64(neg, n, d) ==
    IF n = 0 THEN Fin(neg, 0, 1) ELSE FinOf(neg, RoundPos(n, d, 0))

\* The signed numerator of a finite value over the denominator den.
Signed(f) == IF f.neg THEN -f.num ELSE f.num

\* IEEE 754 comparisons: every comparison with NaN is false, -0.0 = 0.0.
FLt(a, b) ==
    IF a.cls = "nan" \/ b.cls = "nan" THEN FALSE
    ELSE IF a.cls = "inf" THEN a.neg /\ ~(b.cls = "inf" /\ b.neg)
    ELSE IF b.cls = "inf" THEN ~b.neg
    ELSE Signed(a) * b.den < Signed(b) * a.den

FGt(a, b) == FLt(b, a)

\* ------------------------------------------------------ f64 parsing (std)
LowerCh(c) ==
    CASE c = "N" -> "n" [] c = "A" -> "a" [] c = "I" -> "i" [] c = "F" -> "f"
      [] c = "T" -> "t" [] c = "Y" -> "y" [] OTHER -> c

Lower(s) == [i \in 1..Len(s) |-> LowerCh(s[i])]

\* Index of the first "." of s, or Len(s) + 1.
RECURSIVE DotAt(_, _)
DotAt(s, i) ==
    IF i > Len(s) THEN i ELSE IF s[i] = "." THEN i ELSE DotAt(s, i + 1)

\* The value of a digit string as a natural number.
RECURSIVE DigitsVal(_, _)
DigitsVal(ds, acc) ==
    IF ds = <<>> THEN acc ELSE DigitsVal(Tail(ds), acc * 10 + DigitVal(Head(ds)))

\* The digits before and after the ".": all of them digits, at least one.
ParseParts(neg, ip, fp) ==
    IF \E i \in 1..Len(ip) : ip[i] \notin Digits THEN Err(<<"invalid float literal">>)
    ELSE IF \E i \in 1..Len(fp) : fp[i] \notin Digits
         THEN Err(<<"invalid float literal">>)
    ELSE IF Len(ip) + Len(fp) = 0 THEN Err(<<"invalid float literal">>)
    ELSE Ok(RoundToF64(neg, DigitsVal(ip \o fp, 0), Pow10(Len(fp))))

ParseDecimal(neg, body, dot) ==
    ParseParts(neg, SubSeq(body, 1, dot - 1), SubSeq(body, dot + 1, Len(body)))

\* What follows the sign: "nan", "inf" or "infinity" in any case, or a decimal.
ParseUnsignedF64(neg, body) ==
    IF body = <<>> THEN Err(<<"invalid float literal">>)
    ELSE IF Lower(body) = <<"n", "a", "n">> THEN Ok(NaN)
    ELSE IF Lower(body) \in {<<"i", "n", "f">>,
                             <<"i", "n", "f", "i", "n", "i", "t", "y">>}
         THEN Ok(Inf(neg))
    ELSE ParseDecimal(neg, body, DotAt(body, 1))

\* str::parse::<f64> (core::num::dec2flt) on the alphabet of signs, digits,
\* "." and letters: an optional sign, then "nan", "inf" or "infinity" in any
\* case, or digits with an optional "." and at least one digit.  The decimal
\* is rounded to the nearest representable value, ties to even.
ParseF64(s) ==
    IF s = <<>> THEN Err(<<"cannot parse float from empty string">>)
    ELSE ParseUnsignedF64(s[1] = "-", IF s[1] \in {"+", "-"} THEN Tail(s) ELSE s)

\* A float literal of the source, rounded by the compiler as the parser rounds.
F64Lit(s) == ParseF64(s).val

\* ------------------------------------------------------ validated scalars
\* The range check of ZeroToOneF64::from_str on the parse p of s:
\* if f < 0.0 || f > 1.0 { bail!(...) } else { Ok(ZeroToOneF64(f)) }.
ZeroToOneCheck(s, p) ==
    IF ~p.ok THEN p
    ELSE IF FLt(p.val, F64Lit(<<"0", ".", "0">>))
            \/ FGt(p.val, F64Lit(<<"1", ".", "0">>))
         THEN Err(<<"invalid value: ">> \o s \o <<" must be between 0 and 1">>)
    ELSE Ok(p.val)

\* ZeroToOneF64::from_str: parse an f64 (`?` returns its error), then check.
ZeroToOneF64FromStr(s) == ZeroToOneCheck(s, ParseF64(s))

\* The range check of HistorySlackF64::from_str on the parse p of s:
\* if f < 1.01 { bail!(...) } else { Ok(HistorySlackF64(f)) }.
HistorySlackCheck(s, p) ==
    IF ~p.ok THEN p
    ELSE IF FLt(p.val, F64Lit(<<"1", ".", "0", "1">>))
         THEN Err(<<"invalid value: ">> \o s \o <<" must be bigger than 1.01">>)
    ELSE Ok(p.val)

\* HistorySlackF64::from_str: parse an f64 (`?` returns its error), then check.
HistorySlackF64FromStr(s) == HistorySlackCheck(s, ParseF64(s))

\* EnvVarBoolean (graph/src/env/mod.rs, reached through `use super::*`): the
\* boolean parse the specification gives the order-by-block-range flag.
EnvVarBooleanFromStr(s) == ParseBool(s)

\* <T as FromStr>::from_str for the field types of InnerStore.
FromStr(ty, s) ==
    CASE ty = "u64" -> ParseUnsigned(s, U64Max)
      [] ty = "usize" -> ParseUnsigned(s, UsizeMax)
      [] ty = "u32" -> ParseUnsigned(s, U32Max)
      [] ty = "bool" -> ParseBool(s)
      [] ty = "EnvVarBoolean" -> EnvVarBooleanFromStr(s)
      [] ty = "ZeroToOneF64" -> ZeroToOneF64FromStr(s)
      [] ty = "HistorySlackF64" -> HistorySlackF64FromStr(s)

\* ------------------------------------------------------------- InnerStore
\* The fields of InnerStore in declaration order, each with the variable and
\* the default its #[envconfig(from = ..., default = ...)] attribute names; a
\* field of type Option<T> has no default.
Fields == <<
    [field |-> "chain_head_watcher_timeout_in_secs",
     var |-> "GRAPH_CHAIN_HEAD_WATCHER_TIMEOUT",
     ty |-> "u64", optional |-> FALSE, default |-> <<"3", "0">>],
    [field |-> "query_stats_refresh_interval_in_secs",
     var |-> "GRAPH_QUERY_STATS_REFRESH_INTERVAL",
     ty |-> "u64", optional |-> FALSE, default |-> <<"3", "0", "0">>],
    [field |-> "schema_cache_ttl",
     var |-> "GRAPH_SCHEMA_CACHE_TTL",
     ty |-> "u64", optional |-> TRUE, default |-> <<>>],
    [field |-> "extra_query_permits",
     var |-> "GRAPH_EXTRA_QUERY_PERMITS",
     ty |-> "usize", optional |-> FALSE, default |-> <<"0">>],
    [field |-> "large_notification_cleanup_interval_in_secs",
     var |-> "LARGE_NOTIFICATION_CLEANUP_INTERVAL",
     ty |-> "u64", optional |-> FALSE, default |-> <<"3", "0", "0">>],
    [field |-> "notification_broadcast_timeout_in_secs",
     var |-> "GRAPH_NOTIFICATION_BROADCAST_TIMEOUT",
     ty |-> "u64", optional |-> FALSE, default |-> <<"6", "0">>],
    [field |-> "typea_batch_size",
     var |-> "TYPEA_BATCH_SIZE",
     ty |-> "usize", optional |-> FALSE, default |-> <<"1", "5", "0">>],
    [field |-> "typed_children_set_size",
     var |-> "TYPED_CHILDREN_SET_SIZE",
     ty |-> "usize", optional |-> FALSE, default |-> <<"1", "5", "0">>],
    [field |-> "order_by_block_range",
     var |-> "ORDER_BY_BLOCK_RANGE",
     ty |-> "EnvVarBoolean", optional |-> FALSE, default |-> <<"t", "r", "u", "e">>],
    [field |-> "remove_unused_interval_in_minutes",
     var |-> "GRAPH_REMOVE_UNUSED_INTERVAL",
     ty |-> "u64", optional |-> FALSE, default |-> <<"3", "6", "0">>],
    [field |-> "recent_blocks_cache_capacity",
     var |-> "GRAPH_STORE_RECENT_BLOCKS_CACHE_CAPACITY",
     ty |-> "usize", optional |-> FALSE, default |-> <<"1", "0">>],
    [field |-> "connection_timeout_in_millis",
     var |-> "GRAPH_STORE_CONNECTION_TIMEOUT",
     ty |-> "u64", optional |-> FALSE, default |-> <<"5", "0", "0", "0">>],
    [field |-> "connection_min_idle",
     var |-> "GRAPH_STORE_CONNECTION_MIN_IDLE",
     ty |-> "u32", optional |-> TRUE, default |-> <<>>],
    [field |-> "connection_idle_timeout_in_secs",
     var |-> "GRAPH_STORE_CONNECTION_IDLE_TIMEOUT",
     ty |-> "u64", optional |-> FALSE, default |-> <<"6", "0", "0">>],
    [field |-> "write_queue_size",
     var |-> "GRAPH_STORE_WRITE_QUEUE",
     ty |-> "usize", optional |-> FALSE, default |-> <<"5">>],
    [field |-> "batch_target_duration_in_secs",
     var |-> "GRAPH_STORE_BATCH_TARGET_DURATION",
     ty |-> "u64", optional |-> FALSE, default |-> <<"1", "8", "0">>],
    [field |-> "rebuild_threshold",
     var |-> "GRAPH_STORE_HISTORY_REBUILD_THRESHOLD",
     ty |-> "ZeroToOneF64", optional |-> FALSE, default |-> <<"0", ".", "5">>],
    [field |-> "delete_threshold",
     var |-> "GRAPH_STORE_HISTORY_DELETE_THRESHOLD",
     ty |-> "ZeroToOneF64", optional |-> FALSE, default |-> <<"0", ".", "0", "5">>],
    [field |-> "history_slack_factor",
     var |-> "GRAPH_STORE_HISTORY_SLACK_FACTOR",
     ty |-> "HistorySlackF64", optional |-> FALSE, default |-> <<"1", ".", "2">>],
    [field |-> "write_batch_duration_in_secs",
     var |-> "GRAPH_STORE_WRITE_BATCH_DURATION",
     ty |-> "u64", optional |-> FALSE, default |-> <<"3", "0", "0">>],
    [field |-> "write_batch_size",
     var |-> "GRAPH_STORE_WRITE_BATCH_SIZE",
     ty |-> "usize", optional |-> FALSE, default |-> <<"1", "0", "0", "0", "0">>],
    [field |-> "create_gin_indexes",
     var |-> "GRAPH_STORE_CREATE_GIN_INDEXES",
     ty |-> "bool", optional |-> FALSE, default |-> <<"f", "a", "l", "s", "e">>],
    [field |-> "use_brin_for_all_query_types",
     var |-> "GRAPH_STORE_USE_BRIN_FOR_ALL_QUERY_TYPES",
     ty |-> "bool", optional |-> FALSE, default |-> <<"f", "a", "l", "s", "e">>],
    [field |-> "disable_block_cache_for_lookup",
     var |-> "GRAPH_STORE_DISABLE_BLOCK_CACHE_FOR_LOOKUP",
     ty |-> "bool", optional |-> FALSE, default |-> <<"f", "a", "l", "s", "e">>],
    [field |-> "last_rollup_from_poi",
     var |-> "GRAPH_STORE_LAST_ROLLUP_FROM_POI",
     ty |-> "bool", optional |-> FALSE, default |-> <<"f", "a", "l", "s", "e">>],
    [field |-> "insert_extra_cols",
     var |-> "GRAPH_STORE_INSERT_EXTRA_COLS",
     ty |-> "usize", optional |-> FALSE, default |-> <<"0">>],
    [field |-> "fdw_fetch_size",
     var |-> "GRAPH_STORE_FDW_FETCH_SIZE",
     ty |-> "usize", optional |-> FALSE, default |-> <<"1", "0", "0", "0", "0">>] >>

FieldIdx == 1..Len(Fields)
FieldNames == {Fields[i].field : i \in FieldIdx}
Vars == {Fields[i].var : i \in FieldIdx}
FieldOf(var) == Fields[CHOOSE i \in FieldIdx : Fields[i].var = var]

\* A variable no field of InnerStore names.
Unrecognized == "GRAPH_STORE_UNRECOGNIZED"

\* An environment maps each name to Unset or to Set(raw string).
Unset == [set |-> FALSE]
Set(s) == [set |-> TRUE, raw |-> s]

NoneV == [some |-> FALSE]
Some(v) == [some |-> TRUE, v |-> v]

\* envconfig::Error::ParseError { name }: the error of a value that does not
\* parse carries the variable's name; the FromStr error is dropped by map_err.
ParseError(name) == [kind |-> "ParseError", name |-> name]

\* Each field's default string run through the field's parser, as
\* load_var_with_default does when the variable is absent (computed once: it
\* is the same for every load).  A field of type Option<T> has none.
ParsedDefaults ==
    [i \in FieldIdx |->
        IF Fields[i].optional THEN Ok(NoneV)
        ELSE FromStr(Fields[i].ty, Fields[i].default)]

\* The position of a field in the declaration.
IndexOf(f) == CHOOSE i \in FieldIdx : Fields[i].field = f.field

\* The parse a field's load works on: of the raw value when the variable is
\* set, of the default otherwise.
Parsed(f, v) == IF v.set THEN FromStr(f.ty, v.raw) ELSE ParsedDefaults[IndexOf(f)]

\* Loaded with a failed parse replaced by the field's default (by None for an
\* Option<T>) instead of ending the load.
Loaded_DefaultOnError(f, p) ==
    IF ~p.ok THEN ParsedDefaults[IndexOf(f)]
    ELSE Ok(IF f.optional THEN Some(p.val) ELSE p.val)

\* The end of a field's load on the parse p: a failure is a ParseError naming
\* the variable (`?` then ends init_from_env), a value is kept.
Loaded(f, p) ==
    IF ~p.ok THEN [ok |-> FALSE, err |-> ParseError(f.var)]
    ELSE Ok(IF f.optional THEN Some(p.val) ELSE p.val)

\* What the derive generates for one field: load_optional_var for Option<T>
\* (absent gives None), load_var_with_default otherwise (absent parses the
\* default string).
LoadValue(f, v) ==
    IF f.optional /\ ~v.set THEN Ok(NoneV) ELSE Loaded(f, Parsed(f, v))

\* LoadField with the last field bound to a variable name no field declares.
LoadField_WrongName(f, e) ==
    LoadValue(f, IF f.field = "fdw_fetch_size" THEN e[Unrecognized] ELSE e[f.var])

\* A field is loaded from the variable its attribute names.
LoadField(f, e) == LoadValue(f, e[f.var])

\* The InnerStore of the loaded fields, or the error of the first one that
\* failed.
Collected(loaded, failed) ==
    IF failed = {}
    THEN Ok([n \in FieldNames |->
                loaded[CHOOSE i \in FieldIdx : Fields[i].field = n].val])
    ELSE loaded[CHOOSE i \in failed : \A j \in failed : i <= j]

Collect(loaded) == Collected(loaded, {i \in FieldIdx : ~loaded[i].ok})

\* InnerStore::init_from_env: the fields are loaded in declaration order and
\* the first failure is returned (each load ends in `?`).
InitFromEnv(e) == Collect([i \in FieldIdx |-> LoadField(Fields[i], e)])

\* ------------------------------------------------- From<InnerStore>::from
\* a * b modulo m without leaving TLC's integers.
RECURSIVE MulMod(_, _, _)
MulMod(a, b, m) ==
    IF b = 0 THEN 0
    ELSE (2 * MulMod(a, b \div 2, m) + (IF b % 2 = 1 THEN a % m ELSE 0)) % m

\* The `*` of an unsigned type with maximum max.  A product that does not fit
\* panics in a build with overflow checks (the dev profile) and wraps in one
\* without (the release profile).
UMul(a, b, max, checks) ==
    IF b = 0 \/ a <= max \div b THEN [panic |-> FALSE, val |-> a * b]
    ELSE IF checks THEN [panic |-> TRUE, msg |-> "attempt to multiply with overflow"]
    ELSE [panic |-> FALSE, val |-> MulMod(a, b, max + 1)]

\* `x as i64` for a u64 x: the same bits read as two's complement.
AsI64(x) == IF x <= I64Max THEN x ELSE x - (U64Max + 1)

\* std::time::Duration::from_secs and from_millis.
NanosPerMilli == 1000000
MillisPerSec == 1000
SecsPerMinute == 60
DurationFromSecs(secs) == [secs |-> secs, nanos |-> 0]
DurationFromMillis(ms) ==
    [secs |-> ms \div MillisPerSec, nanos |-> (ms % MillisPerSec) * NanosPerMilli]

\* chrono::Duration::minutes(m): m * 60 seconds, and a panic ("out of bounds")
\* when the product leaves the range chrono represents, i64::MAX milliseconds
\* either side of zero.
ChronoMaxMinutes == (I64Max \div MillisPerSec) \div SecsPerMinute
ChronoMinutes(m) ==
    IF m > ChronoMaxMinutes \/ m < -ChronoMaxMinutes
    THEN [panic |-> TRUE, msg |-> "Duration::minutes out of bounds"]
    ELSE [panic |-> FALSE, val |-> [secs |-> m * SecsPerMinute, nanos |-> 0]]

\* The kilobyte of GRAPH_STORE_WRITE_BATCH_SIZE, in bytes.
BytesPerKB == 1000

\* Duration::from_secs of a number of seconds whose computation may have
\* panicked.
SecsOf(m) == IF m.panic THEN m ELSE [panic |-> FALSE, val |-> DurationFromSecs(m.val)]

\* schema_cache_ttl: the explicit value, or else twice the refresh interval
\* (the closure of unwrap_or_else runs only when the variable is absent).
SchemaCacheTtl(x, checks) ==
    IF x.schema_cache_ttl.some
    THEN [panic |-> FALSE, val |-> DurationFromSecs(x.schema_cache_ttl.v)]
    ELSE SecsOf(UMul(2, x.query_stats_refresh_interval_in_secs, U64Max, checks))

\* remove_unused_interval: chrono::Duration::minutes(x as i64).
RemoveUnusedInterval(x) == ChronoMinutes(AsI64(x.remove_unused_interval_in_minutes))

\* write_batch_size: x.write_batch_size * 1_000.
WriteBatchSize(x, checks) == UMul(x.write_batch_size, BytesPerKB, UsizeMax, checks)

\* A panic while the field named `at` was being computed.
Panic(at, msg) == [kind |-> "Panic", at |-> at, msg |-> msg]

\* From<InnerStore> for EnvVarsStore: the struct literal, its field expressions
\* evaluated in source order; the first panic leaves no EnvVarsStore.
Build(x, ttl, rui, wbs) ==
        IF ttl.panic THEN [panic |-> TRUE, err |-> Panic("schema_cache_ttl", ttl.msg)]
        ELSE IF rui.panic
             THEN [panic |-> TRUE, err |-> Panic("remove_unused_interval", rui.msg)]
        ELSE IF wbs.panic
             THEN [panic |-> TRUE, err |-> Panic("write_batch_size", wbs.msg)]
        ELSE [panic |-> FALSE, val |->
          [chain_head_watcher_timeout |->
               DurationFromSecs(x.chain_head_watcher_timeout_in_secs),
           query_stats_refresh_interval |->
               DurationFromSecs(x.query_stats_refresh_interval_in_secs),
           schema_cache_ttl |-> ttl.val,
           extra_query_permits |-> x.extra_query_permits,
           large_notification_cleanup_interval |->
               DurationFromSecs(x.large_notification_cleanup_interval_in_secs),
           notification_broadcast_timeout |->
               DurationFromSecs(x.notification_broadcast_timeout_in_secs),
           typea_batch_size |-> x.typea_batch_size,
           typed_children_set_size |-> x.typed_children_set_size,
           order_by_block_range |-> x.order_by_block_range,
           remove_unused_interval |-> rui.val,
           recent_blocks_cache_capacity |-> x.recent_blocks_cache_capacity,
           connection_timeout |-> DurationFromMillis(x.connection_timeout_in_millis),
           connection_min_idle |-> x.connection_min_idle,
           connection_idle_timeout |->
               DurationFromSecs(x.connection_idle_timeout_in_secs),
           write_queue_size |-> x.write_queue_size,
           batch_target_duration |-> DurationFromSecs(x.batch_target_duration_in_secs),
           rebuild_threshold |-> x.rebuild_threshold,
           delete_threshold |-> x.delete_threshold,
           history_slack_factor |-> x.history_slack_factor,
           write_batch_duration |-> DurationFromSecs(x.write_batch_duration_in_secs),
           write_batch_size |-> wbs.val,
           create_gin_indexes |-> x.create_gin_indexes,
           use_brin_for_all_query_types |-> x.use_brin_for_all_query_types,
           disable_block_cache_for_lookup |-> x.disable_block_cache_for_lookup,
           last_rollup_from_poi |-> x.last_rollup_from_poi,
           insert_extra_cols |-> x.insert_extra_cols,
           fdw_fetch_size |-> x.fdw_fetch_size]]

From(x, checks) ==
    Build(x, SchemaCacheTtl(x, checks), RemoveUnusedInterval(x),
          WriteBatchSize(x, checks))

\* DebugFmt as #[derive(Debug)] would print: the type's name and field values.
DebugFmt_Derived(store) ==
    <<"EnvVarsStore { extra_query_permits: ">>
        \o ToDigits(store.extra_query_permits) \o <<", .. }">>

\* fmt::Debug for EnvVarsStore: write!(f, "env vars"), whatever the fields.
DebugFmt(store) == <<"env vars">>

\* ----------------------------------------------------------------- inputs
Abc == <<"a", "b", "c">>

\* The raw strings tried for each variable: values at and around the limits
\* of the field's type and of its conversion, and strings its parser rejects.
InputsOf(var) ==
    CASE var = "GRAPH_QUERY_STATS_REFRESH_INTERVAL" ->
           {<<"1", "0", "0">>, ToDigits(I64Max), ToDigits(I64Max + 1), Abc}
      [] var = "GRAPH_SCHEMA_CACHE_TTL" -> {<<"5", "0">>, Abc}
      [] var = "GRAPH_STORE_WRITE_BATCH_SIZE" ->
           {<<"0">>, <<"1", "0", "0", "0", "0">>,
            ToDigits(UsizeMax \div BytesPerKB + 1), Abc}
      [] var = "GRAPH_REMOVE_UNUSED_INTERVAL" ->
           {<<"0">>, ToDigits(I64Max + 1), ToDigits(U64Max), Abc}
      [] var = "GRAPH_STORE_HISTORY_REBUILD_THRESHOLD" ->
           {<<"0">>, <<"1">>, <<"0", ".", "2", "5">>, <<"-", "0", ".", "1">>,
            <<"1", ".", "5">>, <<"1", ".", "0", "0", "1">>, <<"N", "a", "N">>, Abc}
      [] var = "GRAPH_STORE_HISTORY_DELETE_THRESHOLD" ->
           {<<"0", ".", "1">>, <<"1", ".", "5">>, <<"N", "a", "N">>}
      [] var = "GRAPH_STORE_HISTORY_SLACK_FACTOR" ->
           {<<"1", ".", "0", "1">>, <<"1", ".", "0">>, <<"1", ".", "0", "0", "9", "9">>,
            <<"2">>, <<"N", "a", "N">>, <<"i", "n", "f">>, Abc}
      [] var = "GRAPH_STORE_CONNECTION_MIN_IDLE" ->
           {<<"5">>, ToDigits(U32Max + 1), Abc}
      [] var = "ORDER_BY_BLOCK_RANGE" -> {<<"f", "a", "l", "s", "e">>, <<"y", "e", "s">>}
      [] var = "GRAPH_CHAIN_HEAD_WATCHER_TIMEOUT" ->
           {<<"1", "0">>, ToDigits(U64Max) \o <<"0">>, <<"-", "1">>}
      [] var = "GRAPH_STORE_CONNECTION_TIMEOUT" -> {<<"1", "5", "0", "0">>}
      [] var = "GRAPH_STORE_CREATE_GIN_INDEXES" -> {<<"t", "r", "u", "e">>, <<"1">>}
      [] OTHER ->
           IF FieldOf(var).ty = "bool" THEN {<<"t", "r", "u", "e">>} ELSE {<<"7">>}

Names == Vars \cup {Unrecognized}

\* The ways to set at most k of the variables of fields i, i+1, ..., each a
\* set of <<field index, raw string>> pairs.
RECURSIVE Picks(_, _)
Picks(k, i) ==
    IF k = 0 \/ i > Len(Fields) THEN {{}}
    ELSE Picks(k, i + 1) \cup
         {c \cup {<<i, r>>} : c \in Picks(k - 1, i + 1), r \in InputsOf(Fields[i].var)}

\* The environment that sets exactly the variables picked.
EnvOf(c) ==
    [n \in Names |->
        IF \E p \in c : Fields[p[1]].var = n
        THEN Set((CHOOSE p \in c : Fields[p[1]].var = n)[2])
        ELSE Unset]

\* ----------------------------------------------------------- state machine
VARIABLES
    env,              \* the process environment
    overflow_checks,  \* whether the build panics on integer overflow
    pc,               \* "start", "parsed", "failed", "panicked" or "loaded"
    inner,            \* the InnerStore of the running load, once parsed
    store,            \* the EnvVarsStore of the running load, once converted
    err,              \* the envconfig error or the panic that ended the running load
    dbg,              \* the Debug text printed for store, once printed
    prev              \* the environment and outcome of the load before this one

vars == <<env, overflow_checks, pc, inner, store, err, dbg, prev>>

Terminal == {"failed", "panicked", "loaded"}

\* What a load leaves to its caller.
Outcome == [pc |-> pc, store |-> store, err |-> err]

Init ==
    /\ \E c \in Picks(MaxPresent, 1) : env = EnvOf(c)
    /\ overflow_checks \in BOOLEAN
    /\ pc = "start"
    /\ inner = NoneV
    /\ store = NoneV
    /\ err = NoneV
    /\ dbg = NoneV
    /\ prev = NoneV

\* The caller of init_from_env receives r: the InnerStore or the error.
Received(r) ==
    IF r.ok
    THEN inner' = Some(r.val) /\ err' = err /\ pc' = "parsed"
    ELSE inner' = inner /\ err' = Some(r.err) /\ pc' = "failed"

\* InnerStore::init_from_env() on the current environment.
LoadInner ==
    /\ pc = "start"
    /\ Received(InitFromEnv(env))
    /\ UNCHANGED <<env, overflow_checks, store, dbg, prev>>

\* The conversion ends in r: the EnvVarsStore or a panic.
Converted(r) ==
    IF r.panic
    THEN store' = store /\ err' = Some(r.err) /\ pc' = "panicked"
    ELSE store' = Some(r.val) /\ err' = err /\ pc' = "loaded"

\* EnvVarsStore::from(inner): reached only with a parsed InnerStore.
Convert ==
    /\ pc = "parsed"
    /\ Converted(From(inner.v, overflow_checks))
    /\ UNCHANGED <<env, overflow_checks, inner, dbg, prev>>

\* format!("{:?}", store).
PrintDebug ==
    /\ pc = "loaded"
    /\ dbg = NoneV
    /\ dbg' = Some(DebugFmt(store.v))
    /\ UNCHANGED <<env, overflow_checks, pc, inner, store, err, prev>>

\* A second load is started: the first one's environment and outcome are kept
\* for comparison.
Restart ==
    /\ pc \in Terminal
    /\ prev = NoneV
    /\ prev' = Some([env |-> env, outcome |-> Outcome])
    /\ pc' = "start"
    /\ inner' = NoneV
    /\ store' = NoneV
    /\ err' = NoneV
    /\ dbg' = NoneV
    /\ UNCHANGED <<env, overflow_checks>>

\* Between the two loads the environment gains a variable no field names.
SetUnrecognized ==
    /\ pc = "start"
    /\ prev # NoneV
    /\ ~env[Unrecognized].set
    /\ env' = [env EXCEPT ![Unrecognized] = Set(Abc)]
    /\ UNCHANGED <<overflow_checks, pc, inner, store, err, dbg, prev>>

Next == LoadInner \/ Convert \/ PrintDebug \/ Restart \/ SetUnrecognized

Spec == Init /\ [][Next]_vars

\* ------------------------------------------------------------------ claims
\* The decimal numerals: an optional sign, digits, at most one ".", and the
\* exact rational Num(s) / Den(s) such a string denotes.
Body(s) == IF s # <<>> /\ s[1] \in {"+", "-"} THEN Tail(s) ELSE s
Negative(s) == s # <<>> /\ s[1] = "-"
IsNumeral(s) ==
    LET b == Body(s)
    IN  /\ \E i \in 1..Len(b) : b[i] \in Digits
        /\ \A i \in 1..Len(b) : b[i] \in Digits \cup {"."}
        /\ Cardinality({i \in 1..Len(b) : b[i] = "."}) <= 1
Num(s) == DigitsVal(SelectSeq(Body(s), LAMBDA c : c \in Digits), 0)
Den(s) ==
    LET b == Body(s)
    IN  IF DotAt(b, 1) > Len(b) THEN 1 ELSE Pow10(Len(b) - DotAt(b, 1))

\* 0 <= x <= 1 and x >= 1.01 for the number x a numeral denotes.
DenotesUnit(s) == Num(s) = 0 \/ (~Negative(s) /\ Num(s) <= Den(s))
DenotesSlack(s) == ~Negative(s) /\ 100 * Num(s) >= 101 * Den(s)

\* a <= b on f64 values, false when either is NaN.
FLe(a, b) == a.cls # "nan" /\ b.cls # "nan" /\ ~FLt(b, a)

ConversionRan == pc \in {"loaded", "panicked"}
PanickedAt(field) == pc = "panicked" /\ err.v.at = field
RejectedVar(var) == pc = "failed" /\ err.v.name = var
PresentVars == {n \in Vars : env[n].set}
Invalid(n) == ~FromStr(FieldOf(n).ty, env[n].raw).ok

\* The EnvVarsStore of an environment that sets nothing.
DefaultStore == From(InitFromEnv(EnvOf({})).val, FALSE).val

\* C1: whenever the refresh interval r was accepted, the conversion yields a
\* schema_cache_ttl of exactly 2*r seconds if GRAPH_SCHEMA_CACHE_TTL is absent,
\* and of exactly t seconds if it is present with the accepted value t.
C1_SchemaCacheTtl ==
    ConversionRan =>
        LET r == inner.v.query_stats_refresh_interval_in_secs
            want == IF env["GRAPH_SCHEMA_CACHE_TTL"].set
                    THEN inner.v.schema_cache_ttl.v ELSE 2 * r
        IN  /\ ~PanickedAt("schema_cache_ttl")
            /\ store.some => store.v.schema_cache_ttl = [secs |-> want, nanos |-> 0]

\* C2: a configuration exists only if every present recognized variable passed
\* its check; with an invalid one present the load ends in an error, nothing of
\* it (InnerStore or EnvVarsStore) is exposed, no default stands in for the
\* value, and the conversion that derives the cache TTL never runs.
C2_FailFast ==
    /\ (inner.some \/ store.some) => \A n \in PresentVars : ~Invalid(n)
    /\ (pc # "start" /\ \E n \in PresentVars : Invalid(n)) =>
          /\ pc = "failed"
          /\ inner = NoneV /\ store = NoneV
          /\ err.v.kind = "ParseError" /\ Invalid(err.v.name)
    /\ ConversionRan => inner.some

\* C2's case: two variables are present, one valid and one invalid, and the
\* load has ended in the error.
C2_Witness ==
    /\ pc = "failed" /\ store = NoneV
    /\ \E n, m \in PresentVars : Invalid(n) /\ ~Invalid(m)

\* C3: a threshold string denoting x is accepted if and only if 0 <= x <= 1,
\* and every ZeroToOneF64 that exists holds a value within [0, 1].
C3_UnitInterval ==
    \A i \in {i \in FieldIdx : Fields[i].ty = "ZeroToOneF64"} :
        LET f == Fields[i]
            zero == F64Lit(<<"0">>)
            one == F64Lit(<<"1">>)
        IN  /\ inner.some =>
                 FLe(zero, inner.v[f.field]) /\ FLe(inner.v[f.field], one)
            /\ (env[f.var].set /\ IsNumeral(env[f.var].raw)) =>
                 IF DenotesUnit(env[f.var].raw) THEN ~RejectedVar(f.var)
                 ELSE ~inner.some

\* C4: a slack factor string denoting x is accepted if and only if x >= 1.01,
\* and every HistorySlackF64 that exists holds a value of at least 1.01.
C4_SlackFactor ==
    LET var == "GRAPH_STORE_HISTORY_SLACK_FACTOR"
        least == F64Lit(<<"1", ".", "0", "1">>)
    IN  /\ inner.some => FLe(least, inner.v.history_slack_factor)
        /\ (env[var].set /\ IsNumeral(env[var].raw)) =>
             IF DenotesSlack(env[var].raw) THEN ~RejectedVar(var)
             ELSE ~inner.some

\* C5: for every accepted k the conversion yields a write_batch_size of exactly
\* k * 1000 bytes, with no wrap-around.
C5_WriteBatchSize ==
    ConversionRan =>
        /\ ~PanickedAt("write_batch_size")
        /\ store.some =>
             /\ store.v.write_batch_size \div BytesPerKB = inner.v.write_batch_size
             /\ store.v.write_batch_size % BytesPerKB = 0

\* The defaults the claim C6 lists: <<variable, field, resolved default>>.
C6_Defaults ==
    {<<"GRAPH_CHAIN_HEAD_WATCHER_TIMEOUT", "chain_head_watcher_timeout",
       [secs |-> 30, nanos |-> 0]>>,
     <<"GRAPH_QUERY_STATS_REFRESH_INTERVAL", "query_stats_refresh_interval",
       [secs |-> 300, nanos |-> 0]>>,
     <<"GRAPH_EXTRA_QUERY_PERMITS", "extra_query_permits", 0>>,
     <<"GRAPH_STORE_HISTORY_REBUILD_THRESHOLD", "rebuild_threshold",
       F64Lit(<<"0", ".", "5">>)>>,
     <<"GRAPH_STORE_HISTORY_DELETE_THRESHOLD", "delete_threshold",
       F64Lit(<<"0", ".", "0", "5">>)>>,
     <<"GRAPH_STORE_HISTORY_SLACK_FACTOR", "history_slack_factor",
       F64Lit(<<"1", ".", "2">>)>>,
     <<"ORDER_BY_BLOCK_RANGE", "order_by_block_range", TRUE>>,
     <<"GRAPH_STORE_CONNECTION_MIN_IDLE", "connection_min_idle", NoneV>>}

\* C6: when every present recognized variable is valid the load succeeds
\* (it ends neither in an error nor in a panic), and the field of every absent
\* variable is its default, parsed and converted (unset for
\* connection_min_idle).
C6_AbsenceIsNoError ==
    (\A n \in PresentVars : ~Invalid(n)) =>
        /\ pc \notin {"failed", "panicked"}
        /\ store.some =>
             \A d \in C6_Defaults : ~env[d[1]].set => store.v[d[2]] = d[3]

\* C7: the error of a variable that fails its check identifies the variable's
\* name and the rejected raw string.
C7_ErrorContent ==
    pc = "failed" =>
        /\ err.v.name \in PresentVars /\ Invalid(err.v.name)
        /\ "raw" \in DOMAIN err.v /\ err.v.raw = env[err.v.name].raw

\* C8: the Debug text of an EnvVarsStore does not depend on its field values:
\* it is the text of the default configuration, whatever was loaded.
C8_Opaque == dbg.some => dbg.v = DebugFmt(DefaultStore) /\ dbg.v = <<"env vars">>

\* C8's case: the Debug text of a configuration that differs from the default
\* one in the field a derived Debug would print first has been produced.
C8_Witness ==
    /\ dbg.some
    /\ store.v.extra_query_permits # DefaultStore.extra_query_permits
    /\ store.v.schema_cache_ttl # DefaultStore.schema_cache_ttl

C10_RemoveUnusedInterval ==
    ConversionRan =>
        /\ ~PanickedAt("remove_unused_interval")
        /\ store.some =>
             /\ store.v.remove_unused_interval.secs >= 0
             /\ store.v.remove_unused_interval.secs % SecsPerMinute = 0
             /\ store.v.remove_unused_interval.secs \div SecsPerMinute
                    = inner.v.remove_unused_interval_in_minutes
====
